---- MODULE Spec2Model ----
(***************************************************************************)
(* Settings validation and profile resolution of the terminal application  *)
(* (src/cascadia/TerminalApp/CascadiaSettings.cpp).                        *)
(*                                                                         *)
(* A CascadiaSettings object is modelled after the configuration layers    *)
(* were applied to it: _profiles, _globals (default profile, unparsed      *)
(* default profile, colour schemes, keybinding warnings), _userSettings,   *)
(* _defaultSettings and _warnings.  _ValidateSettings is followed pass by  *)
(* pass: pc names the pass that runs next, so a SettingsException leaves   *)
(* the object exactly as the throwing pass left it.                        *)
(***************************************************************************)
EXTENDS Integers, Sequences, FiniteSets, TLC

VARIABLES
    profiles,               \* _profiles: the ordered profile store
    defaultProfile,         \* _globals.DefaultProfile(): a GUID, NullGuid when unset
    unparsedDefaultProfile, \* _globals.UnparsedDefaultProfile(): <<>> or <<token>>
    colorSchemes,           \* _globals.GetColorSchemes(): the keys of the table
    keybindingsWarnings,    \* _globals.GetKeybindingsWarnings()
    userSettings,           \* _userSettings: [profiles, globals]
    defaultSettings,        \* _defaultSettings: [profiles, globals]
    warnings,               \* _warnings
    pc,                     \* position inside _ValidateSettings
    error,                  \* the exception that ended the last run, or NoError
    runs,                   \* number of _ValidateSettings calls started
    entry,                  \* history: the object as the current run found it
    checkedDefault,         \* history: the default profile the existence check found
    requests,               \* the calls the application makes: NewTerminalArgs or a GUID
    built                   \* what the last BuildSettings call returned or threw

vars == <<profiles, defaultProfile, unparsedDefaultProfile, colorSchemes,
          keybindingsWarnings, userSettings, defaultSettings, warnings, pc,
          error, runs, entry, checkedDefault, requests, built>>

(***************************************************************************)
(* Bounds of the model.                                                    *)
(***************************************************************************)
MaxProfiles == 3
MaxJson == 2
MaxRuns == 2

(***************************************************************************)
(* Values.                                                                 *)
(***************************************************************************)
\* profile.Guid() == nullptr, also std::nullopt of std::optional<GUID>
NoGuid == -1
\* GUID{} / winrt::guid{}
NullGuid == 0

NoError == "none"

\* Strings of exactly 38 characters that begin with '{'.  "{0}".."{3}" stand
\* for the canonical text of the GUIDs 0..3, "{zz}" for a string of that shape
\* that is no GUID.
GuidShaped == {"{0}", "{1}", "{2}", "{3}", "{zz}"}

\* Utils::GuidFromString returns: the string is the text of a GUID.  On any
\* other string it throws.
ParsesAsGuid(s) == s \in {"{0}", "{1}", "{2}", "{3}"}

\* Utils::GuidFromString: the GUID a string denotes
GuidFromString(s) ==
    CASE s = "{0}" -> NullGuid
      [] s = "{1}" -> 1
      [] s = "{2}" -> 2
      [] s = "{3}" -> 3

\* Profile::_GenerateGuidForProfile: the identifier derived from a profile's
\* name; the same name always gives the same identifier.
GenerateGuidForProfile(name) ==
    CASE name = "cmd" -> 1
      [] name = "pwsh" -> 2
      [] name = "{2}" -> 4
      [] name = "{zz}" -> 5
      [] OTHER -> 6

\* a GUID made up at run time, one per profile object
GenerateGuidIfNecessary_Runtime(p) ==
    IF p.guid = NoGuid THEN [p EXCEPT !.guid = 6 + p.key] ELSE p

\* Profile::GenerateGuidIfNecessary
GenerateGuidIfNecessary(p) ==
    IF p.guid = NoGuid
    THEN [p EXCEPT !.guid = GenerateGuidForProfile(p.name)]
    ELSE p

\* Profile::GetGuidOrGenerateForJson
GetGuidOrGenerateForJson(json) ==
    IF json.guid # NoGuid THEN json.guid ELSE GenerateGuidForProfile(json.name)

\* winrt::Windows::Foundation::Uri's constructor accepts the path
IsValidUri(path) == path \in {"ms-appx:///ProfileIcons/a.png", "C:/img/b.jpg"}

\* til::coalesce_value with one optional
Coalesce(opt, fallback) == IF opt # NoGuid THEN opt ELSE fallback

Range(s) == {s[i] : i \in DOMAIN s}

SetMin(S) == CHOOSE x \in S : \A y \in S : x <= y

(***************************************************************************)
(* CascadiaSettings::FindProfile: the index of the first profile with the  *)
(* GUID, 0 for nullptr.                                                    *)
(***************************************************************************)
FindProfile(ps, guid) ==
    LET hits == {i \in DOMAIN ps : ps[i].guid # NoGuid /\ ps[i].guid = guid}
    IN  IF hits = {} THEN 0 ELSE SetMin(hits)

(***************************************************************************)
(* CascadiaSettings::_GetProfileGuidByName: std::optional<GUID>, NoGuid    *)
(* for std::nullopt.  Any exception inside is caught and gives nullopt.    *)
(***************************************************************************)
ProfileGuidByNameOnly(ps, name) ==
    LET hits == {i \in DOMAIN ps : ps[i].name = name}
    IN  IF hits = {} THEN NoGuid
        ELSE ps[SetMin(hits)].guid   \* Guid().Value() of a null reference throws

\* mutant: a GUID no profile has is not tried as a name
GetProfileGuidByName_NoFallback(ps, name) ==
    IF name = "" THEN NoGuid
    ELSE IF name \in GuidShaped
         THEN IF ~ParsesAsGuid(name) THEN NoGuid
              ELSE LET newGUID == GuidFromString(name)
                   IN  IF FindProfile(ps, newGUID) # 0 THEN newGUID ELSE NoGuid
         ELSE ProfileGuidByNameOnly(ps, name)

GetProfileGuidByName(ps, name) ==
    IF name = "" THEN NoGuid
    ELSE IF name \in GuidShaped
         THEN IF ~ParsesAsGuid(name) THEN NoGuid   \* caught: std::nullopt
              ELSE LET newGUID == GuidFromString(name)
                   IN  IF FindProfile(ps, newGUID) # 0 THEN newGUID
                       ELSE ProfileGuidByNameOnly(ps, name)
         ELSE ProfileGuidByNameOnly(ps, name)

(***************************************************************************)
(* The resolver: BuildSettings and the lookups under it.                   *)
(***************************************************************************)
\* mutant: an index outside the store gives the last profile
GetProfileGuidByIndex_Clamped(ps, index) ==
    IF index # <<>> /\ ps # <<>>
    THEN IF index[1] >= 0 /\ index[1] < Len(ps)
         THEN ps[index[1] + 1].guid
         ELSE ps[Len(ps)].guid
    ELSE NoGuid

\* CascadiaSettings::_GetProfileGuidByIndex; index is <<>> for std::nullopt
GetProfileGuidByIndex(ps, index) ==
    IF index # <<>> /\ index[1] >= 0 /\ index[1] < Len(ps)
    THEN ps[index[1] + 1].guid      \* Guid().Value()
    ELSE NoGuid

\* Guid().Value() of _GetProfileGuidByIndex throws on a profile without GUID,
\* and nothing on the way up to the caller of BuildSettings catches it
GetProfileGuidByIndexThrows(ps, index) ==
    /\ index # <<>> /\ index[1] >= 0 /\ index[1] < Len(ps)
    /\ ps[index[1] + 1].guid = NoGuid

\* CascadiaSettings::_GetProfileForArgs
GetProfileForArgs(ps, default, args) ==
    LET profileByIndex == IF ~args.isNull /\ args.profileIndex # <<>>
                          THEN GetProfileGuidByIndex(ps, args.profileIndex)
                          ELSE NoGuid
        profileByName == IF ~args.isNull
                         THEN GetProfileGuidByName(ps, args.profile)
                         ELSE NoGuid
    IN  Coalesce(profileByName, Coalesce(profileByIndex, default))

GetProfileForArgsThrows(ps, args) ==
    ~args.isNull /\ GetProfileGuidByIndexThrows(ps, args.profileIndex)

\* Profile::CreateTerminalSettings followed by GlobalAppSettings::
\* ApplyToSettings: the three fields a session may override come from the
\* profile; profileKey records which profile object they were read from.
CreateTerminalSettings(p) ==
    [commandline |-> CASE p.name = "cmd" -> "cmd.exe"
                       [] p.name = "pwsh" -> "pwsh.exe"
                       [] OTHER -> "wsl.exe",
     startingDirectory |-> "%USERPROFILE%",
     startingTitle |-> p.name,
     profileKey |-> p.key]

NoSettings ==
    [commandline |-> "", startingDirectory |-> "", startingTitle |-> "",
     profileKey |-> 0]

\* mutant: a GUID without profile gives the settings of the first profile
BuildSettingsForGuid_FirstProfile(ps, guid) ==
    LET i == FindProfile(ps, guid)
    IN  IF ps = <<>>
        THEN [threw |-> TRUE, guid |-> guid, settings |-> NoSettings]
        ELSE [threw |-> FALSE, guid |-> guid,
              settings |-> CreateTerminalSettings(ps[IF i = 0 THEN 1 ELSE i])]

\* TerminalSettings CascadiaSettings::BuildSettings(GUID profileGuid)
BuildSettingsForGuid(ps, guid) ==
    LET i == FindProfile(ps, guid)
    IN  IF i = 0
        THEN [threw |-> TRUE, guid |-> guid, settings |-> NoSettings]  \* E_INVALIDARG
        ELSE [threw |-> FALSE, guid |-> guid,
              settings |-> CreateTerminalSettings(ps[i])]

\* mutant: an empty override replaces the profile's value
WithSessionOverrides_Always(settings, args) ==
    IF args.isNull THEN settings
    ELSE [settings EXCEPT !.commandline = args.commandline,
                          !.startingDirectory = args.startingDirectory,
                          !.startingTitle = args.tabTitle]

\* the three "if (!newTerminalArgs.X().empty())" of BuildSettings
WithSessionOverrides(settings, args) ==
    IF args.isNull THEN settings
    ELSE [settings EXCEPT
            !.commandline = IF args.commandline # "" THEN args.commandline ELSE @,
            !.startingDirectory =
                IF args.startingDirectory # "" THEN args.startingDirectory ELSE @,
            !.startingTitle = IF args.tabTitle # "" THEN args.tabTitle ELSE @]

\* std::tuple<GUID, TerminalSettings>
\* CascadiaSettings::BuildSettings(const NewTerminalArgs& newTerminalArgs)
BuildSettingsForArgs(ps, default, args) ==
    IF GetProfileForArgsThrows(ps, args)
    THEN [threw |-> TRUE, guid |-> NoGuid, settings |-> NoSettings]
    ELSE LET profileGuid == GetProfileForArgs(ps, default, args)
             settings == BuildSettingsForGuid(ps, profileGuid)
         IN  IF settings.threw THEN settings
             ELSE [settings EXCEPT
                     !.settings = WithSessionOverrides(settings.settings, args)]

\* The calls made of a settings object.
NewTerminalArgs(profile, profileIndex, commandline, startingDirectory, tabTitle) ==
    [kind |-> "args", isNull |-> FALSE, profile |-> profile,
     profileIndex |-> profileIndex, commandline |-> commandline,
     startingDirectory |-> startingDirectory, tabTitle |-> tabTitle,
     guid |-> NoGuid]

NullNewTerminalArgs ==
    [kind |-> "args", isNull |-> TRUE, profile |-> "", profileIndex |-> <<>>,
     commandline |-> "", startingDirectory |-> "", tabTitle |-> "",
     guid |-> NoGuid]

GuidArgument(guid) ==
    [kind |-> "guid", isNull |-> FALSE, profile |-> "", profileIndex |-> <<>>,
     commandline |-> "", startingDirectory |-> "", tabTitle |-> "",
     guid |-> guid]

NotCalled ==
    [called |-> FALSE, request |-> NullNewTerminalArgs, threw |-> FALSE,
     guid |-> NoGuid, settings |-> NoSettings,
     profiles |-> <<>>, defaultProfile |-> NullGuid]

\* the outcome of a call, with the store and the default profile it read
Returned(request, result) ==
    [called |-> TRUE, request |-> request, threw |-> result.threw,
     guid |-> result.guid, settings |-> result.settings,
     profiles |-> profiles, defaultProfile |-> defaultProfile]

(***************************************************************************)
(* The passes of _ValidateSettings as functions of what they read.         *)
(***************************************************************************)
\* _ValidateProfilesHaveGuid
ProfilesWithGuid(ps) == [i \in DOMAIN ps |-> GenerateGuidIfNecessary(ps[i])]

\* collectGuids: appends to guidOrder the GUIDs of the profile objects of
\* json that uniqueGuids does not hold yet
RECURSIVE CollectGuids(_, _)
CollectGuids(json, guidOrder) ==
    IF json = <<>> THEN guidOrder
    ELSE LET profileJson == Head(json)
             guid == GetGuidOrGenerateForJson(profileJson)
         IN  IF profileJson.isObject /\ guid \notin Range(guidOrder)
             THEN CollectGuids(Tail(json), Append(guidOrder, guid))
             ELSE CollectGuids(Tail(json), guidOrder)

GuidOrder(user, defaults) ==
    CollectGuids(defaults.profiles, CollectGuids(user.profiles, <<>>))

IterSwap(ps, i, j) == [ps EXCEPT ![i] = ps[j], ![j] = ps[i]]

\* the gIndex loop of _ReorderProfilesToMatchUserSettingsOrder (indices from 1)
RECURSIVE ReorderFrom(_, _, _)
ReorderFrom(ps, guidOrder, gIndex) ==
    IF gIndex > Len(guidOrder) THEN ps
    ELSE LET hits == {pIndex \in gIndex..Len(ps) : ps[pIndex].guid = guidOrder[gIndex]}
         IN  IF hits = {} THEN ReorderFrom(ps, guidOrder, gIndex + 1)
             ELSE ReorderFrom(IterSwap(ps, SetMin(hits), gIndex), guidOrder, gIndex + 1)

\* the same loop reads profileGuid.Value() of a profile that has no GUID
RECURSIVE ReorderHitsNoGuid(_, _, _)
ReorderHitsNoGuid(ps, guidOrder, gIndex) ==
    IF gIndex > Len(guidOrder) THEN FALSE
    ELSE LET hits == {pIndex \in gIndex..Len(ps) : ps[pIndex].guid = guidOrder[gIndex]}
             last == IF hits = {} THEN Len(ps) ELSE SetMin(hits)
         IN  \/ \E pIndex \in gIndex..last : ps[pIndex].guid = NoGuid
             \/ ReorderHitsNoGuid(IF hits = {} THEN ps ELSE IterSwap(ps, last, gIndex),
                                  guidOrder, gIndex + 1)

\* mutant: the hidden profiles are moved but never erased
WithoutHidden_KeepsAll(ps) ==
    SelectSeq(ps, LAMBDA p : ~p.hidden) \o SelectSeq(ps, LAMBDA p : p.hidden)

\* mutant: a removal that does not keep the order of what it leaves
WithoutHidden_Unstable(ps) ==
    LET kept == SelectSeq(ps, LAMBDA p : ~p.hidden)
    IN  [i \in DOMAIN kept |-> kept[Len(kept) + 1 - i]]

\* std::remove_if + erase of _RemoveHiddenProfiles
WithoutHidden(ps) == SelectSeq(ps, LAMBDA p : ~p.hidden)

\* mutant: the GUIDs seen are never remembered
IndicesToDelete_NoInsert(ps, i, uniqueGuids) ==
    {k \in i..Len(ps) : ps[k].guid \in uniqueGuids}

\* the first loop of _ValidateNoDuplicateProfiles: indicesToDelete
RECURSIVE IndicesToDelete(_, _, _)
IndicesToDelete(ps, i, uniqueGuids) ==
    IF i > Len(ps) THEN {}
    ELSE IF ps[i].guid \in uniqueGuids
         THEN {i} \cup IndicesToDelete(ps, i + 1, uniqueGuids)
         ELSE IndicesToDelete(ps, i + 1, uniqueGuids \cup {ps[i].guid})

\* mutant: the marked indices are erased walking forwards, so that every
\* erase shifts the elements the later indices meant
RECURSIVE EraseForwards(_, _)
EraseForwards(ps, indices) ==
    IF indices = {} THEN ps
    ELSE LET i == SetMin(indices)
         IN  EraseForwards(IF i <= Len(ps)
                           THEN SubSeq(ps, 1, i - 1) \o SubSeq(ps, i + 1, Len(ps))
                           ELSE ps,
                           indices \ {i})

EraseAll_Forwards(ps, i, indices) == EraseForwards(ps, indices)

\* the erase loop of _ValidateNoDuplicateProfiles
RECURSIVE EraseAll(_, _, _)
EraseAll(ps, i, indices) ==
    IF i > Len(ps) THEN <<>>
    ELSE IF i \in indices THEN EraseAll(ps, i + 1, indices)
         ELSE <<ps[i]>> \o EraseAll(ps, i + 1, indices)

\* the loop of _ValidateAllSchemesExist
SchemeIsUnknown(p, schemes) ==
    p.colorSchemeName # "" /\ p.colorSchemeName \notin schemes

\* mutant: the unknown scheme names are found but not reset
WithKnownSchemes_NoReset(ps, schemes) == ps

WithKnownSchemes(ps, schemes) ==
    [i \in DOMAIN ps |->
        IF SchemeIsUnknown(ps[i], schemes)
        THEN [ps[i] EXCEPT !.colorSchemeName = "Campbell"]
        ELSE ps[i]]

\* the loop of _ValidateMediaResources
BadBackground(p) == p.backgroundImagePath # "" /\ ~IsValidUri(p.backgroundImagePath)

BadIcon(p) == p.iconPath # "" /\ ~IsValidUri(p.iconPath)

\* mutant: one bad path resets both paths of the profile
WithValidMedia_ResetsBoth(ps) ==
    [i \in DOMAIN ps |->
        IF BadBackground(ps[i]) \/ BadIcon(ps[i])
        THEN [ps[i] EXCEPT !.backgroundImagePath = "", !.iconPath = ""]
        ELSE ps[i]]

WithValidMedia(ps) ==
    [i \in DOMAIN ps |->
        [ps[i] EXCEPT !.backgroundImagePath = IF BadBackground(ps[i]) THEN "" ELSE @,
                      !.iconPath = IF BadIcon(ps[i]) THEN "" ELSE @]]

(***************************************************************************)
(* Initial states: a settings object with its layers applied and           *)
(* _ValidateSettings not yet called.                                       *)
(***************************************************************************)
Keyed(f) ==
    [i \in DOMAIN f |->
        [key |-> i, guid |-> f[i].guid, name |-> f[i].name, hidden |-> f[i].hidden,
         colorSchemeName |-> f[i].colorSchemeName, iconPath |-> f[i].iconPath,
         backgroundImagePath |-> f[i].backgroundImagePath]]

SeqsUpTo(S, n) == UNION {[1..k -> S] : k \in 0..n}

StoresOver(Catalog) == {Keyed(f) : f \in SeqsUpTo(Catalog, MaxProfiles)}

ProfileData(guids, names, hiddens, schemes, icons, backgrounds) ==
    [guid : guids, name : names, hidden : hiddens, colorSchemeName : schemes,
     iconPath : icons, backgroundImagePath : backgrounds]

JsonOver(guids, names, shapes) ==
    SeqsUpTo([guid : guids, name : names, isObject : shapes], MaxJson)

InitOver(Stores, Defaults, Tokens, Tables, KbWarnings, UserJsons, DefaultJsons, Legacy) ==
    /\ profiles \in Stores
    /\ defaultProfile \in Defaults
    /\ unparsedDefaultProfile \in Tokens
    /\ colorSchemes \in Tables
    /\ keybindingsWarnings \in KbWarnings
    /\ userSettings \in [profiles : UserJsons, globals : Legacy]
    /\ defaultSettings \in [profiles : DefaultJsons, globals : {FALSE}]
    /\ warnings = <<>>
    /\ pc = "loaded"
    /\ error = NoError
    /\ runs = 0
    /\ entry = [profiles |-> <<>>, defaultProfile |-> NullGuid, warnings |-> <<>>]
    /\ checkedDefault = NullGuid
    /\ built = NotCalled

\* a new tab without arguments, and the settings of one profile by GUID
FewRequests == {NullNewTerminalArgs, GuidArgument(1)}

(***************************************************************************)
(* _ValidateSettings, one action per statement of its body.                *)
(***************************************************************************)
config == <<unparsedDefaultProfile, colorSchemes, keybindingsWarnings,
            userSettings, defaultSettings, requests>>

Goto(next) == pc' = next /\ UNCHANGED <<error, runs, entry, config, built>>

Throw(what) ==
    pc' = "failed" /\ error' = what /\ UNCHANGED <<runs, entry, config, built>>

\* mutant: the warnings of the earlier runs are kept
ValidateSettings_KeepsWarnings ==
    /\ pc \in {"loaded", "done"}
    /\ runs < MaxRuns
    /\ runs' = runs + 1
    /\ entry' = [profiles |-> profiles, defaultProfile |-> defaultProfile,
                 warnings |-> warnings]
    /\ pc' = "_ValidateProfilesExist"
    /\ error' = NoError
    /\ UNCHANGED <<profiles, defaultProfile, warnings, config, built>>
    /\ UNCHANGED checkedDefault

\* a call of _ValidateSettings: _warnings.clear()
ValidateSettings ==
    /\ pc \in {"loaded", "done"}
    /\ runs < MaxRuns
    /\ runs' = runs + 1
    /\ entry' = [profiles |-> profiles, defaultProfile |-> defaultProfile,
                 warnings |-> warnings]
    /\ warnings' = <<>>
    /\ pc' = "_ValidateProfilesExist"
    /\ error' = NoError
    /\ UNCHANGED <<profiles, defaultProfile, config, built>>
    /\ UNCHANGED checkedDefault

ValidateProfilesExist ==
    /\ pc = "_ValidateProfilesExist"
    /\ IF profiles = <<>>
       THEN Throw("NoProfiles")
       ELSE Goto("_ValidateProfilesHaveGuid")
    /\ UNCHANGED <<profiles, defaultProfile, warnings>>
    /\ UNCHANGED checkedDefault

ValidateProfilesHaveGuid ==
    /\ pc = "_ValidateProfilesHaveGuid"
    /\ profiles' = ProfilesWithGuid(profiles)
    /\ Goto("_ReorderProfilesToMatchUserSettingsOrder")
    /\ UNCHANGED <<defaultProfile, warnings>>
    /\ UNCHANGED checkedDefault

\* profileGuid.Value() of a profile without GUID dereferences a null reference:
\* the run ends there, with no SettingsException
ReorderProfilesToMatchUserSettingsOrder ==
    /\ pc = "_ReorderProfilesToMatchUserSettingsOrder"
    /\ LET guidOrder == GuidOrder(userSettings, defaultSettings)
       IN  IF ReorderHitsNoGuid(profiles, guidOrder, 1)
           THEN Throw("crash") /\ UNCHANGED profiles
           ELSE /\ profiles' = ReorderFrom(profiles, guidOrder, 1)
                /\ Goto("_RemoveHiddenProfiles")
    /\ UNCHANGED <<defaultProfile, warnings>>
    /\ UNCHANGED checkedDefault

\* mutant: the duplicates are erased first, the hidden profiles after them
RemoveHiddenProfiles_AfterDedup ==
    /\ pc = "_RemoveHiddenProfiles"
    /\ LET deduped == EraseAll(profiles, 1, IndicesToDelete(profiles, 1, {}))
       IN  IF WithoutHidden(deduped) = <<>>
           THEN Throw("AllProfilesHidden") /\ profiles' = <<>>
           ELSE Goto("_ValidateNoDuplicateProfiles")
                /\ profiles' = WithoutHidden(deduped)
    /\ UNCHANGED <<defaultProfile, warnings>>
    /\ UNCHANGED checkedDefault

\* mutant: the store is not checked again after the hidden profiles are gone
RemoveHiddenProfiles_NoRecheck ==
    /\ pc = "_RemoveHiddenProfiles"
    /\ profiles' = SelectSeq(profiles, LAMBDA p : ~p.hidden)
    /\ pc' = "_ValidateNoDuplicateProfiles"
    /\ UNCHANGED <<error, runs, entry, config, built, defaultProfile, warnings>>
    /\ UNCHANGED checkedDefault

RemoveHiddenProfiles ==
    /\ pc = "_RemoveHiddenProfiles"
    /\ profiles' = WithoutHidden(profiles)
    /\ IF profiles' = <<>>
       THEN Throw("AllProfilesHidden")
       ELSE Goto("_ValidateNoDuplicateProfiles")
    /\ UNCHANGED <<defaultProfile, warnings>>
    /\ UNCHANGED checkedDefault

ValidateNoDuplicateProfiles ==
    /\ pc = "_ValidateNoDuplicateProfiles"
    /\ IF \E i \in DOMAIN profiles : profiles[i].guid = NoGuid
       THEN Throw("crash") /\ UNCHANGED <<profiles, warnings>>
       ELSE LET indicesToDelete == IndicesToDelete(profiles, 1, {})
                foundDupe == indicesToDelete # {}
            IN  /\ profiles' = EraseAll(profiles, 1, indicesToDelete)
                /\ warnings' = IF foundDupe
                               THEN Append(warnings, "DuplicateProfile")
                               ELSE warnings
                /\ Goto("_ResolveDefaultProfile")
    /\ UNCHANGED defaultProfile
    /\ UNCHANGED checkedDefault

ResolveDefaultProfile ==
    /\ pc = "_ResolveDefaultProfile"
    /\ IF unparsedDefaultProfile # <<>>
       THEN LET maybeParsedDefaultProfile ==
                    GetProfileGuidByName(profiles, unparsedDefaultProfile[1])
            IN  defaultProfile' = Coalesce(maybeParsedDefaultProfile, NullGuid)
       ELSE UNCHANGED defaultProfile
    /\ Goto("_ValidateDefaultProfileExists")
    /\ UNCHANGED <<profiles, warnings>>
    /\ UNCHANGED checkedDefault

\* mutant: only an unset default profile is repaired, a dangling one is kept
ValidateDefaultProfileExists_NullOnly ==
    /\ pc = "_ValidateDefaultProfileExists"
    /\ IF defaultProfile = NullGuid
       THEN /\ warnings' = Append(warnings, "MissingDefaultProfile")
            /\ defaultProfile' = profiles[1].guid
       ELSE UNCHANGED <<defaultProfile, warnings>>
    /\ Goto("_ValidateAllSchemesExist")
    /\ checkedDefault' = defaultProfile
    /\ UNCHANGED profiles

ValidateDefaultProfileExists ==
    /\ pc = "_ValidateDefaultProfileExists"
    /\ LET nullDefaultProfile == defaultProfile = NullGuid
           defaultProfileNotInProfiles == FindProfile(profiles, defaultProfile) = 0
       IN  IF nullDefaultProfile \/ defaultProfileNotInProfiles
           THEN IF profiles = <<>> \/ profiles[1].guid = NoGuid
                THEN /\ warnings' = Append(warnings, "MissingDefaultProfile")
                     /\ Throw("crash")
                     /\ UNCHANGED defaultProfile
                ELSE /\ warnings' = Append(warnings, "MissingDefaultProfile")
                     /\ defaultProfile' = profiles[1].guid
                     /\ Goto("_ValidateAllSchemesExist")
           ELSE /\ Goto("_ValidateAllSchemesExist")
                /\ UNCHANGED <<defaultProfile, warnings>>
    /\ checkedDefault' = defaultProfile
    /\ UNCHANGED profiles

\* mutant: the warning is pushed inside the loop, once for every profile
RECURSIVE UnknownSchemeWarnings(_, _)
UnknownSchemeWarnings(ps, schemes) ==
    IF ps = <<>> THEN <<>>
    ELSE (IF SchemeIsUnknown(Head(ps), schemes) THEN <<"UnknownColorScheme">> ELSE <<>>)
             \o UnknownSchemeWarnings(Tail(ps), schemes)

ValidateAllSchemesExist_WarnsInLoop ==
    /\ pc = "_ValidateAllSchemesExist"
    /\ profiles' = WithKnownSchemes(profiles, colorSchemes)
    /\ warnings' = warnings \o UnknownSchemeWarnings(profiles, colorSchemes)
    /\ Goto("_ValidateMediaResources")
    /\ UNCHANGED <<defaultProfile, checkedDefault>>

ValidateAllSchemesExist ==
    /\ pc = "_ValidateAllSchemesExist"
    /\ LET foundInvalidScheme ==
               \E i \in DOMAIN profiles : SchemeIsUnknown(profiles[i], colorSchemes)
       IN  /\ profiles' = WithKnownSchemes(profiles, colorSchemes)
           /\ warnings' = IF foundInvalidScheme
                          THEN Append(warnings, "UnknownColorScheme")
                          ELSE warnings
    /\ Goto("_ValidateMediaResources")
    /\ UNCHANGED defaultProfile
    /\ UNCHANGED checkedDefault

ValidateMediaResources ==
    /\ pc = "_ValidateMediaResources"
    /\ LET invalidBackground == \E i \in DOMAIN profiles : BadBackground(profiles[i])
           invalidIcon == \E i \in DOMAIN profiles : BadIcon(profiles[i])
       IN  /\ profiles' = WithValidMedia(profiles)
           /\ warnings' = warnings
                  \o (IF invalidBackground THEN <<"InvalidBackgroundImage">> ELSE <<>>)
                  \o (IF invalidIcon THEN <<"InvalidIcon">> ELSE <<>>)
    /\ Goto("_ValidateKeybindings")
    /\ UNCHANGED defaultProfile
    /\ UNCHANGED checkedDefault

ValidateKeybindings ==
    /\ pc = "_ValidateKeybindings"
    /\ warnings' = IF keybindingsWarnings # <<>>
                   THEN Append(warnings, "AtLeastOneKeybindingWarning")
                            \o keybindingsWarnings
                   ELSE warnings
    /\ Goto("_ValidateNoGlobalsKey")
    /\ UNCHANGED <<profiles, defaultProfile>>
    /\ UNCHANGED checkedDefault

ValidateNoGlobalsKey ==
    /\ pc = "_ValidateNoGlobalsKey"
    /\ warnings' = IF userSettings.globals
                   THEN Append(warnings, "LegacyGlobalsProperty")
                   ELSE warnings
    /\ Goto("done")
    /\ UNCHANGED <<profiles, defaultProfile>>
    /\ UNCHANGED checkedDefault

(***************************************************************************)
(* The resolver calls.  The application holds a settings object only after *)
(* the load that built it has returned, that is after _ValidateSettings    *)
(* ran to its end without an exception.                                    *)
(***************************************************************************)
\* mutant: the object is handed out before and during validation
ResolverPermitted_Always == TRUE

ResolverPermitted == pc = "done"

program == <<profiles, defaultProfile, warnings, pc, error, runs, entry,
             checkedDefault, config>>

\* mutant: the call stores the profile it resolved as the default profile
CallBuildSettingsForArgs_CachesProfile ==
    /\ ResolverPermitted
    /\ \E r \in requests :
        /\ r.kind = "args"
        /\ built' = Returned(r, BuildSettingsForArgs(profiles, defaultProfile, r))
        /\ defaultProfile' = IF built'.threw THEN defaultProfile ELSE built'.guid
    /\ UNCHANGED <<profiles, warnings, pc, error, runs, entry, checkedDefault, config>>

CallBuildSettingsForArgs ==
    /\ ResolverPermitted
    /\ \E r \in requests :
        /\ r.kind = "args"
        /\ built' = Returned(r, BuildSettingsForArgs(profiles, defaultProfile, r))
    /\ UNCHANGED program

CallBuildSettingsForGuid ==
    /\ ResolverPermitted
    /\ \E r \in requests :
        /\ r.kind = "guid"
        /\ built' = Returned(r, BuildSettingsForGuid(profiles, r.guid))
    /\ UNCHANGED program

Next ==
    \/ ValidateSettings
    \/ ValidateProfilesExist
    \/ ValidateProfilesHaveGuid
    \/ ReorderProfilesToMatchUserSettingsOrder
    \/ RemoveHiddenProfiles
    \/ ValidateNoDuplicateProfiles
    \/ ResolveDefaultProfile
    \/ ValidateDefaultProfileExists
    \/ ValidateAllSchemesExist
    \/ ValidateMediaResources
    \/ ValidateKeybindings
    \/ ValidateNoGlobalsKey
    \/ CallBuildSettingsForArgs
    \/ CallBuildSettingsForGuid

(***************************************************************************)
(* Specifications.  They share Next and differ in the configurations they  *)
(* start from.                                                             *)
(***************************************************************************)
\* identifiers, hidden flags and names vary; the user configuration declares
\* at most one profile
Init ==
    /\ InitOver(StoresOver(ProfileData({NoGuid, 1, 2}, {"cmd", "pwsh"}, BOOLEAN,
                                       {""}, {""}, {""})),
                {NullGuid, 1}, {<<>>}, {{"Campbell"}}, {<<>>},
                {<<>>, <<[guid |-> 2, name |-> "pwsh", isObject |-> TRUE]>>},
                {<<>>}, {FALSE})
    /\ requests = FewRequests

Spec == Init /\ [][Next]_vars

\* the default profile and its unparsed token vary, and a profile may carry
\* the all-zero GUID or a name of GUID shape
InitDefault ==
    /\ InitOver(StoresOver(ProfileData({NullGuid, 1}, {"cmd", "{3}"}, BOOLEAN,
                                       {""}, {""}, {""})),
                {NullGuid, 1, 3},
                {<<>>, <<"">>, <<"cmd">>, <<"{1}">>, <<"{3}">>, <<"{zz}">>},
                {{"Campbell"}}, {<<>>}, {<<>>}, {<<>>}, {FALSE})
    /\ requests = FewRequests

SpecDefault == InitDefault /\ [][Next]_vars

\* the colour scheme names of the profiles and the colour scheme table vary
InitScheme ==
    /\ InitOver(StoresOver(ProfileData({1, 2, 3}, {"cmd"}, {FALSE},
                                       {"", "Campbell", "Solarized"}, {""}, {""})),
                {NullGuid}, {<<>>},
                {{}, {"Campbell"}, {"Solarized"}, {"Campbell", "Solarized"}},
                {<<>>}, {<<>>}, {<<>>}, {FALSE})
    /\ requests = FewRequests

SpecScheme == InitScheme /\ [][Next]_vars

\* the profiles the user and the default configuration declare vary, with
\* and without a GUID of their own; the store may hold other profiles than
\* the declared ones, hidden ones and several with one GUID
InitOrder ==
    /\ InitOver(StoresOver(ProfileData({1, 2, 3}, {"cmd"}, BOOLEAN, {""}, {""}, {""})),
                {NullGuid}, {<<>>}, {{"Campbell"}},
                {<<>>, <<"TooManyKeysForChord">>},
                JsonOver({NoGuid, 1, 2, 3}, {"cmd"}, {TRUE}),
                {<<>>, <<[guid |-> 1, name |-> "cmd", isObject |-> TRUE],
                         [guid |-> 3, name |-> "cmd", isObject |-> TRUE]>>},
                {TRUE})
    /\ requests = FewRequests

SpecOrder == InitOrder /\ [][Next]_vars

\* profiles with and without a GUID, and a user configuration that declares
\* profiles with and without a GUID
InitGuid ==
    /\ InitOver(StoresOver(ProfileData({NoGuid, 1}, {"cmd", "pwsh"}, {FALSE},
                                       {""}, {""}, {""})),
                {NullGuid}, {<<>>}, {{"Campbell"}}, {<<>>},
                JsonOver({NoGuid, 2}, {"cmd", "pwsh"}, {TRUE}), {<<>>}, {FALSE})
    /\ requests = FewRequests

SpecGuid == InitGuid /\ [][Next]_vars

\* the icon and the background image of a profile are absent, a valid URI or
\* no URI
InitMedia ==
    /\ InitOver(StoresOver(ProfileData({1, 2}, {"cmd"}, {FALSE}, {""},
                                       {"", "ms-appx:///ProfileIcons/a.png", "::"},
                                       {"", "C:/img/b.jpg", "::"})),
                {NullGuid}, {<<>>}, {{"Campbell"}}, {<<>>}, {<<>>}, {<<>>},
                {FALSE})
    /\ requests = FewRequests

SpecMedia == InitMedia /\ [][Next]_vars

\* every warning has a cause: two profiles of one GUID, no default profile, a
\* colour scheme the table lacks, an icon and a background image that are no
\* URI, keybinding warnings and the legacy "globals" key
WarnCatalog ==
    {[guid |-> 1, name |-> "cmd", hidden |-> FALSE, colorSchemeName |-> "",
      iconPath |-> "", backgroundImagePath |-> ""],
     [guid |-> 1, name |-> "cmd", hidden |-> FALSE, colorSchemeName |-> "Solarized",
      iconPath |-> "::", backgroundImagePath |-> ""],
     [guid |-> 2, name |-> "pwsh", hidden |-> FALSE, colorSchemeName |-> "",
      iconPath |-> "", backgroundImagePath |-> "::"],
     [guid |-> 2, name |-> "pwsh", hidden |-> FALSE, colorSchemeName |-> "Solarized",
      iconPath |-> "", backgroundImagePath |-> ""]}

InitWarn ==
    /\ InitOver(StoresOver(WarnCatalog), {NullGuid, 1}, {<<>>}, {{"Campbell"}},
                {<<>>, <<"TooManyKeysForChord", "MissingRequiredParameter">>},
                {<<>>}, {<<>>}, BOOLEAN)
    /\ requests = FewRequests

SpecWarn == InitWarn /\ [][Next]_vars

\* a default profile token that is a name, the text of a GUID or a string of
\* that shape that is no GUID, over profiles one of which may have that
\* string as its name; no profile carries the all-zero GUID
InitToken ==
    /\ InitOver(StoresOver(ProfileData({1, 2}, {"cmd", "{zz}"}, BOOLEAN,
                                       {""}, {""}, {""})),
                {NullGuid, 1}, {<<>>, <<"cmd">>, <<"{2}">>, <<"{zz}">>},
                {{"Campbell"}}, {<<>>}, {<<>>}, {<<>>}, {FALSE})
    /\ requests = FewRequests

SpecToken == InitToken /\ [][Next]_vars

\* the calls of the resolver vary: profile tokens that are a name, the text of
\* a GUID or a string of that shape that is no GUID, indices inside and outside
\* the store, session overrides, and GUIDs with and without a profile; a
\* profile may be named like a GUID
Tokens == {"", "cmd", "pwsh", "{2}", "{3}", "{zz}"}

Indices == {<<>>} \cup {<<i>> : i \in -1..MaxProfiles}

\* an application makes the calls of one of these sets
ResolveRequests ==
    {{NewTerminalArgs(t, i, "", "", "") : i \in Indices} : t \in Tokens}
    \cup {{NewTerminalArgs("", <<>>, c, d, t) :
              c \in {"", "ssh.exe"}, d \in {"", "C:/work"}, t \in {"", "build"}}}
    \cup {{NullNewTerminalArgs} \cup {GuidArgument(g) : g \in 0..3}}

InitResolve ==
    /\ InitOver(StoresOver(ProfileData({1, 2}, {"cmd", "{2}", "{3}", "{zz}"},
                                       {FALSE},
                                       {""}, {""}, {""})),
                {NullGuid, 2}, {<<>>}, {{"Campbell"}}, {<<>>}, {<<>>}, {<<>>},
                {FALSE})
    /\ requests \in ResolveRequests

SpecResolve == InitResolve /\ [][Next]_vars

(***************************************************************************)
(* Properties.                                                             *)
(***************************************************************************)
Finished == pc \in {"done", "failed"}

Succeeded == pc = "done"

Running == pc \notin {"loaded", "done", "failed"}

AllHidden(ps) == \A i \in DOMAIN ps : ps[i].hidden

\* C1: a run of _ValidateSettings ends with the fatal error NoProfiles exactly
\* when the store was empty on entry, with AllProfilesHidden exactly when the
\* store was non-empty on entry and every profile in it hidden, and in every
\* other case no pass fails or blocks and the run ends without an error.
C1_FatalErrors ==
    /\ Finished =>
          /\ (error = "NoProfiles") <=> (entry.profiles = <<>>)
          /\ (error = "AllProfilesHidden") <=>
                 (entry.profiles # <<>> /\ AllHidden(entry.profiles))
          /\ (entry.profiles # <<>> /\ ~AllHidden(entry.profiles)) =>
                 (pc = "done" /\ error = NoError)
    /\ Running => (error = NoError /\ ENABLED Next)

C1_Witness ==
    /\ pc = "failed"
    /\ error = "AllProfilesHidden"
    /\ Len(entry.profiles) >= 2

\* C2: when a run of _ValidateSettings has completed without a fatal error,
\* every profile of the store has an identifier and no two profiles of the
\* store have the same identifier.
C2_UniqueIdentifiers ==
    Succeeded =>
        /\ \A i \in DOMAIN profiles : profiles[i].guid # NoGuid
        /\ \A i, j \in DOMAIN profiles :
               profiles[i].guid = profiles[j].guid => i = j

C2_Witness ==
    /\ Succeeded
    /\ runs = 1
    /\ \E i, j \in DOMAIN entry.profiles :
          /\ entry.profiles[i].guid = NoGuid
          /\ entry.profiles[j].guid = GenerateGuidForProfile(entry.profiles[i].name)
          /\ ~entry.profiles[i].hidden /\ ~entry.profiles[j].hidden
    /\ Len(profiles) >= 2

\* C5: when a run of _ValidateSettings has completed without a fatal error,
\* the store holds at least one profile and no profile in it is hidden.
C5_NonEmptyNoHidden ==
    Succeeded =>
        /\ profiles # <<>>
        /\ \A i \in DOMAIN profiles : ~profiles[i].hidden

C5_Witness ==
    /\ Succeeded
    /\ runs = 1
    /\ \E i \in DOMAIN entry.profiles : entry.profiles[i].hidden
    /\ Len(profiles) = 2

Guids(ps) == {ps[i].guid : i \in DOMAIN ps}

\* C3: when a run of _ValidateSettings has completed without a fatal error,
\* the default profile of the globals is not the null GUID and is the
\* identifier of a profile of the store.
C3_DefaultProfileExists ==
    Succeeded => (defaultProfile # NullGuid /\ defaultProfile \in Guids(profiles))

\* C8: when the default profile that _ValidateDefaultProfileExists found was
\* null or the identifier of no profile of the store, then after validation
\* the default profile is the identifier of the first profile of the store
\* and the warnings hold MissingDefaultProfile.
C8_DefaultFallback ==
    (Succeeded /\ (checkedDefault = NullGuid \/ checkedDefault \notin Guids(profiles))) =>
        /\ defaultProfile = profiles[1].guid
        /\ "MissingDefaultProfile" \in Range(warnings)

\* the default profile named a profile that was removed because it was hidden
C8_Witness ==
    /\ Succeeded
    /\ runs = 1
    /\ unparsedDefaultProfile = <<>>
    /\ checkedDefault # NullGuid
    /\ checkedDefault \notin Guids(profiles)
    /\ \E i \in DOMAIN entry.profiles :
          entry.profiles[i].hidden /\ entry.profiles[i].guid = checkedDefault
    /\ defaultProfile = profiles[1].guid
    /\ warnings = <<"MissingDefaultProfile">>

OnEntry(p) == entry.profiles[CHOOSE k \in DOMAIN entry.profiles : entry.profiles[k].key = p.key]

HadUnknownScheme(p) ==
    OnEntry(p).colorSchemeName # "" /\ OnEntry(p).colorSchemeName \notin colorSchemes

Count(seq, x) == Cardinality({k \in DOMAIN seq : seq[k] = x})

\* C10: after a successful run every profile whose colour scheme name was not
\* empty and no key of the table has the name Campbell, every other profile
\* has the name it had, and the warnings hold UnknownColorScheme once if some
\* profile was repaired and not at all otherwise.
C10_SchemeRepair ==
    Succeeded =>
        /\ \A i \in DOMAIN profiles :
               profiles[i].colorSchemeName =
                   IF HadUnknownScheme(profiles[i])
                   THEN "Campbell"
                   ELSE OnEntry(profiles[i]).colorSchemeName
        /\ Count(warnings, "UnknownColorScheme") =
               IF \E i \in DOMAIN profiles : HadUnknownScheme(profiles[i]) THEN 1 ELSE 0

C10_Witness ==
    /\ Succeeded
    /\ runs = 1
    /\ Len(profiles) = 3
    /\ \A i \in DOMAIN profiles : HadUnknownScheme(profiles[i])
    /\ \E i \in DOMAIN profiles : OnEntry(profiles[i]).colorSchemeName = "Solarized"
    /\ Count(warnings, "UnknownColorScheme") = 1

Keys(ps) == [i \in DOMAIN ps |-> ps[i].key]

\* C6: a second run of _ValidateSettings on the result of a successful run
\* adds no warning the first run did not give and leaves the profiles, their
\* order and the default profile as the first run left them.
C6_Idempotent ==
    (Succeeded /\ runs >= 2) =>
        /\ Keys(profiles) = Keys(entry.profiles)
        /\ defaultProfile = entry.defaultProfile
        /\ \A w \in Range(warnings) : Count(warnings, w) <= Count(entry.warnings, w)

\* the profile objects the user configuration declares, then those the
\* default configuration declares
Declared ==
    SelectSeq(userSettings.profiles \o defaultSettings.profiles, LAMBDA j : j.isObject)

DeclaredGuid(k) ==
    IF Declared[k].guid # NoGuid
    THEN Declared[k].guid
    ELSE GenerateGuidForProfile(Declared[k].name)

\* the place of an identifier in S: that of its first declaration
IsDeclared(guid) == \E k \in DOMAIN Declared : DeclaredGuid(k) = guid

PlaceInS(guid) == SetMin({k \in DOMAIN Declared : DeclaredGuid(k) = guid})

\* C9: once the reorder pass, the removal of the hidden profiles and the
\* dedup pass have run, the profiles with a declared identifier stand in the
\* order of their declaration (user configuration first, repeats skipped),
\* ahead of every profile whose identifier is not declared.
C9_DeclaredOrder ==
    (pc = "_ResolveDefaultProfile") =>
        \A i, j \in DOMAIN profiles :
            (i < j /\ IsDeclared(profiles[j].guid)) =>
                /\ IsDeclared(profiles[i].guid)
                /\ PlaceInS(profiles[i].guid) < PlaceInS(profiles[j].guid)

\* the positions of ps that hold the first occurrence of their identifier
FirstOccurrences(ps) ==
    {i \in DOMAIN ps : \A j \in 1..(i - 1) : ps[j].guid # ps[i].guid}

\* the elements of ps at the positions in S, in the order of ps
SubSeqAt(ps, S) ==
    [k \in 1..Cardinality(S) |->
        ps[CHOOSE i \in S : Cardinality({j \in S : j <= i}) = k]]

\* C7: the dedup pass keeps exactly the first occurrence of every identifier,
\* in the order they had, removes every later occurrence, and appends exactly
\* one DuplicateProfile warning if it removed anything (however many) and
\* nothing otherwise; without duplicates the store is unchanged.
C7_Dedup ==
    [][(pc = "_ValidateNoDuplicateProfiles" /\ pc' # "failed") =>
          /\ profiles' = SubSeqAt(profiles, FirstOccurrences(profiles))
          /\ warnings' = IF FirstOccurrences(profiles) # DOMAIN profiles
                         THEN Append(warnings, "DuplicateProfile")
                         ELSE warnings
          /\ (FirstOccurrences(profiles) = DOMAIN profiles => profiles' = profiles)
          /\ pc' = "_ResolveDefaultProfile"]_vars

C7_Witness ==
    /\ pc = "_ResolveDefaultProfile"
    /\ runs = 1
    /\ Len(WithoutHidden(entry.profiles)) = 3
    /\ Len(profiles) = 1
    /\ warnings = <<"DuplicateProfile">>

(***************************************************************************)
(* The resolver.                                                           *)
(***************************************************************************)
\* the last call was BuildSettings(newTerminalArgs) and returned
ResolvedArgs == built.called /\ built.request.kind = "args" /\ ~built.threw

\* the profile token and the profile index of the last call; null arguments
\* carry neither
TokenOfCall == IF built.request.isNull THEN "" ELSE built.request.profile

IndexOfCall == IF built.request.isNull THEN <<>> ELSE built.request.profileIndex

\* the profiles of the store the call read whose identifier the token spells
SpelledBy(token) ==
    {i \in DOMAIN built.profiles :
        \E g \in 0..3 : /\ token \in GuidShaped
                        /\ ParsesAsGuid(token) /\ GuidFromString(token) = g
                        /\ built.profiles[i].guid = g}

NamedBy(token) ==
    {i \in DOMAIN built.profiles : token # "" /\ built.profiles[i].name = token}

IndexInRange(index) ==
    index # <<>> /\ index[1] >= 0 /\ index[1] < Len(built.profiles)

\* C11: the profile BuildSettings(newTerminalArgs) resolves is the one whose
\* identifier the token spells, else the first one the token names, else the
\* one at the index when the index is inside the store, else the default
\* profile.
C11_Precedence ==
    ResolvedArgs =>
        built.guid =
            IF SpelledBy(TokenOfCall) # {}
            THEN built.profiles[SetMin(SpelledBy(TokenOfCall))].guid
            ELSE IF NamedBy(TokenOfCall) # {}
            THEN built.profiles[SetMin(NamedBy(TokenOfCall))].guid
            ELSE IF IndexInRange(IndexOfCall)
            THEN built.profiles[IndexOfCall[1] + 1].guid
            ELSE built.defaultProfile

\* C12: a call whose index is outside the store and whose token neither
\* spells the identifier of a profile nor names one returns the default
\* profile's identifier, and does not throw.
C12_IndexOutOfRange ==
    (/\ built.called /\ built.request.kind = "args"
     /\ IndexOfCall # <<>> /\ ~IndexInRange(IndexOfCall)
     /\ SpelledBy(TokenOfCall) = {} /\ NamedBy(TokenOfCall) = {})
    => ~built.threw /\ built.guid = built.defaultProfile

\* an index past the end of a store of two or more profiles whose last profile
\* is not the default one
C12_Witness ==
    /\ ResolvedArgs
    /\ IndexOfCall # <<>> /\ IndexOfCall[1] >= Len(built.profiles)
    /\ Len(built.profiles) >= 2
    /\ SpelledBy(TokenOfCall) = {} /\ NamedBy(TokenOfCall) = {}
    /\ built.guid = built.defaultProfile
    /\ built.profiles[Len(built.profiles)].guid # built.defaultProfile

\* the token of the last call has identifier shape, is the text of an
\* identifier, and no profile has that identifier
ParsedButAbsent ==
    /\ built.called /\ built.request.kind = "args"
    /\ TokenOfCall \in GuidShaped /\ ParsesAsGuid(TokenOfCall)
    /\ SpelledBy(TokenOfCall) = {}

\* C13: a token that is the text of an identifier no profile has is compared
\* with the profile names: the call resolves the first profile of that name,
\* and without one it does not throw and resolves the profile at the index,
\* or the default profile when the index is absent or outside the store.
C13_ParsedButAbsent ==
    ParsedButAbsent =>
        /\ ~built.threw
        /\ built.guid =
            IF NamedBy(TokenOfCall) # {}
            THEN built.profiles[SetMin(NamedBy(TokenOfCall))].guid
            ELSE IF IndexInRange(IndexOfCall)
            THEN built.profiles[IndexOfCall[1] + 1].guid
            ELSE built.defaultProfile

\* the token names a profile that is neither the default one nor the one at
\* the index
C13_Witness ==
    /\ ParsedButAbsent
    /\ NamedBy(TokenOfCall) # {}
    /\ IndexInRange(IndexOfCall)
    /\ built.guid = built.profiles[SetMin(NamedBy(TokenOfCall))].guid
    /\ built.guid # built.defaultProfile
    /\ built.guid # built.profiles[IndexOfCall[1] + 1].guid

\* C14: a token of identifier shape that is not the text of an identifier is
\* still compared with the profile names: when a profile has that name, the
\* call resolves the first such profile.
C14_UnparsableFallsBack ==
    (/\ ResolvedArgs
     /\ TokenOfCall \in GuidShaped /\ ~ParsesAsGuid(TokenOfCall)
     /\ NamedBy(TokenOfCall) # {})
    => built.guid = built.profiles[SetMin(NamedBy(TokenOfCall))].guid

\* the first profile of the store the call read that has the identifier
FirstWithGuid(guid) ==
    SetMin({i \in DOMAIN built.profiles :
               built.profiles[i].guid # NoGuid /\ built.profiles[i].guid = guid})

\* the settings of the resolved profile before any session override
BuiltFromProfile == CreateTerminalSettings(built.profiles[FirstWithGuid(built.guid)])

Override(value) == ~built.request.isNull /\ value # ""

\* C15: in the settings BuildSettings(newTerminalArgs) returns, the command
\* line, the starting directory and the starting title are each the session's
\* value when that value is not empty, and the resolved profile's value
\* otherwise, whatever the other two are.
C15_SessionOverrides ==
    ResolvedArgs =>
        /\ built.settings.commandline =
            IF Override(built.request.commandline)
            THEN built.request.commandline ELSE BuiltFromProfile.commandline
        /\ built.settings.startingDirectory =
            IF Override(built.request.startingDirectory)
            THEN built.request.startingDirectory
            ELSE BuiltFromProfile.startingDirectory
        /\ built.settings.startingTitle =
            IF Override(built.request.tabTitle)
            THEN built.request.tabTitle ELSE BuiltFromProfile.startingTitle

\* a command line and a title override around an empty starting directory
C15_Witness ==
    /\ ResolvedArgs
    /\ built.request.commandline # "" /\ built.request.tabTitle # ""
    /\ built.request.startingDirectory = ""
    /\ built.settings.commandline = built.request.commandline
    /\ built.settings.startingTitle = built.request.tabTitle
    /\ built.settings.startingDirectory = BuiltFromProfile.startingDirectory
    /\ built.settings.startingDirectory # ""

\* the last call was BuildSettings(profileGuid)
CalledWithGuid == built.called /\ built.request.kind = "guid"

HasProfile(guid) ==
    \E i \in DOMAIN built.profiles :
        built.profiles[i].guid # NoGuid /\ built.profiles[i].guid = guid

\* C16: BuildSettings(profileGuid) throws E_INVALIDARG exactly when no profile
\* of the store has the GUID, and otherwise returns the settings of the first
\* profile that has it.
C16_InvalidArgument ==
    CalledWithGuid =>
        /\ built.threw <=> ~HasProfile(built.request.guid)
        /\ ~built.threw =>
            built.settings =
                CreateTerminalSettings(built.profiles[FirstWithGuid(built.request.guid)])

\* settings of a profile that is not the first of the store
C16_Witness ==
    /\ CalledWithGuid /\ ~built.threw
    /\ FirstWithGuid(built.request.guid) > 1
    /\ built.settings.profileKey = built.profiles[FirstWithGuid(built.request.guid)].key

\* C17: a step in which BuildSettings returns or throws leaves the profile
\* store, the default profile, the colour scheme table and the warnings as
\* they were.
C17_ReadOnly ==
    [][built' # built =>
        UNCHANGED <<profiles, defaultProfile, colorSchemes, warnings>>]_vars

\* a call that threw E_INVALIDARG, on a store of several profiles with
\* warnings, all as the call found them
C17_Witness ==
    /\ CalledWithGuid /\ built.threw
    /\ Len(profiles) >= 2 /\ warnings # <<>>
    /\ profiles = built.profiles /\ defaultProfile = built.defaultProfile

AfterHaveGuid == pc = "_ReorderProfilesToMatchUserSettingsOrder"

\* the profile objects of the configuration that carry no GUID and the name
DeclaredWithoutGuid(name) ==
    {e \in Range(userSettings.profiles) \cup Range(defaultSettings.profiles) :
        e.isObject /\ e.guid = NoGuid /\ e.name = name}

NoUri(path) == path # "" /\ ~IsValidUri(path)

\* C20: the step of _ValidateMediaResources empties, in every profile, the
\* icon path that is not empty and no URI and the background image path that
\* is not empty and no URI, each by its own test; it changes nothing else of
\* any profile, keeps the profiles and their order, goes on to the next pass
\* without an exception, and appends to the warnings InvalidBackgroundImage
\* once exactly when some background image path was emptied, then InvalidIcon
\* once exactly when some icon path was emptied.
C20_MediaIsolation ==
    [][pc = "_ValidateMediaResources" =>
        /\ Len(profiles') = Len(profiles)
        /\ \A i \in DOMAIN profiles :
            /\ profiles'[i].iconPath =
                IF NoUri(profiles[i].iconPath) THEN "" ELSE profiles[i].iconPath
            /\ profiles'[i].backgroundImagePath =
                IF NoUri(profiles[i].backgroundImagePath)
                THEN "" ELSE profiles[i].backgroundImagePath
            /\ profiles'[i] =
                [profiles[i] EXCEPT !.iconPath = profiles'[i].iconPath,
                    !.backgroundImagePath = profiles'[i].backgroundImagePath]
        /\ pc' = "_ValidateKeybindings" /\ error' = NoError
        /\ defaultProfile' = defaultProfile
        /\ warnings' = warnings
            \o (IF \E i \in DOMAIN profiles : NoUri(profiles[i].backgroundImagePath)
                THEN <<"InvalidBackgroundImage">> ELSE <<>>)
            \o (IF \E i \in DOMAIN profiles : NoUri(profiles[i].iconPath)
                THEN <<"InvalidIcon">> ELSE <<>>)]_vars

\* the pass has emptied the icon of one profile and kept its valid background
\* image, emptied both paths of another, and warned once of each kind
C20_Witness ==
    /\ pc = "_ValidateKeybindings"
    /\ Count(warnings, "InvalidIcon") = 1
    /\ Count(warnings, "InvalidBackgroundImage") = 1
    /\ \E i, j \in DOMAIN profiles :
        /\ i # j
        /\ \E q \in Range(entry.profiles) :
            /\ q.key = profiles[i].key
            /\ NoUri(q.iconPath) /\ IsValidUri(q.backgroundImagePath)
            /\ profiles[i].iconPath = ""
            /\ profiles[i].backgroundImagePath = q.backgroundImagePath
        /\ \E q \in Range(entry.profiles) :
            /\ q.key = profiles[j].key
            /\ NoUri(q.iconPath) /\ NoUri(q.backgroundImagePath)
            /\ profiles[j].iconPath = "" /\ profiles[j].backgroundImagePath = ""

(***************************************************************************)
(* The warnings of a run.                                                  *)
(***************************************************************************)
Opt(present, warning) == IF present THEN <<warning>> ELSE <<>>

\* C21: after a successful run the warnings are, in this order, at most one
\* each of DuplicateProfile, MissingDefaultProfile, UnknownColorScheme,
\* InvalidBackgroundImage and InvalidIcon, then AtLeastOneKeybindingWarning
\* followed by the keybinding warnings in their order when there are any, then
\* LegacyGlobalsProperty exactly when the user configuration has the "globals"
\* key; nothing of an earlier run is left in them.
C21_WarningSequence ==
    Succeeded =>
        \E d, m, u, b, i \in BOOLEAN :
            warnings =
                Opt(d, "DuplicateProfile") \o Opt(m, "MissingDefaultProfile")
                \o Opt(u, "UnknownColorScheme")
                \o Opt(b, "InvalidBackgroundImage") \o Opt(i, "InvalidIcon")
                \o (IF keybindingsWarnings # <<>>
                    THEN <<"AtLeastOneKeybindingWarning">> \o keybindingsWarnings
                    ELSE <<>>)
                \o Opt(userSettings.globals, "LegacyGlobalsProperty")

\* a second run that warns of less than the first, which gave every warning
C21_Witness ==
    /\ Succeeded /\ runs = 2
    /\ entry.warnings =
        <<"DuplicateProfile", "MissingDefaultProfile", "UnknownColorScheme",
          "InvalidBackgroundImage", "InvalidIcon", "AtLeastOneKeybindingWarning">>
        \o keybindingsWarnings \o <<"LegacyGlobalsProperty">>
    /\ keybindingsWarnings # <<>>
    /\ warnings = <<"AtLeastOneKeybindingWarning">> \o keybindingsWarnings
                    \o <<"LegacyGlobalsProperty">>

(***************************************************************************)
(* The default profile named by a token.                                   *)
(***************************************************************************)
HasToken == unparsedDefaultProfile # <<>>

\* the profiles left in the store that the token names, by the text of their
\* GUID or by their name
NamedByToken ==
    {i \in DOMAIN profiles :
        \/ profiles[i].name = unparsedDefaultProfile[1]
        \/ /\ unparsedDefaultProfile[1] \in GuidShaped
           /\ ParsesAsGuid(unparsedDefaultProfile[1])
           /\ profiles[i].guid = GuidFromString(unparsedDefaultProfile[1])}

\* C22: after a successful run with a default profile token that names a
\* profile left in the store, the default profile is the GUID of a profile the
\* token names and MissingDefaultProfile is no warning; with a token that
\* names no profile, the existence check found the default profile null.
C22_DefaultByToken ==
    (Succeeded /\ HasToken) =>
        IF NamedByToken # {}
        THEN /\ \E i \in NamedByToken : defaultProfile = profiles[i].guid
             /\ Count(warnings, "MissingDefaultProfile") = 0
        ELSE checkedDefault = NullGuid

(***************************************************************************)
(* Hidden profiles and duplicates.                                         *)
(***************************************************************************)
\* the GUID a profile of the store on entry has once the GUIDs are assigned
GuidOnEntry(q) == GenerateGuidIfNecessary(q).guid

VisibleOnEntry == {q \in Range(entry.profiles) : ~q.hidden}

HiddenOnEntry == {q \in Range(entry.profiles) : q.hidden}

\* a visible profile whose GUID a hidden profile has and no other visible one
SharesWithHiddenOnly(v) ==
    /\ \E h \in HiddenOnEntry : GuidOnEntry(h) = GuidOnEntry(v)
    /\ \A w \in VisibleOnEntry : GuidOnEntry(w) = GuidOnEntry(v) => w.key = v.key

\* C23: after a successful run, a visible profile that shared its GUID with
\* hidden profiles only is in the store, whether it stood before or behind
\* them, and DuplicateProfile is a warning only when two visible profiles
\* shared a GUID.
C23_HiddenBeforeDedup ==
    Succeeded =>
        /\ \A v \in VisibleOnEntry :
            SharesWithHiddenOnly(v) => v.key \in Range(Keys(profiles))
        /\ Count(warnings, "DuplicateProfile") > 0 =>
            \E v, w \in VisibleOnEntry :
                v.key # w.key /\ GuidOnEntry(v) = GuidOnEntry(w)

\* the hidden profile stood before the visible one of its GUID, which is in
\* the store with no DuplicateProfile warning
C23_Witness ==
    /\ Succeeded
    /\ Count(warnings, "DuplicateProfile") = 0
    /\ \E v \in VisibleOnEntry, h \in HiddenOnEntry :
        /\ h.key < v.key /\ runs = 1
        /\ GuidOnEntry(h) = GuidOnEntry(v)
        /\ v.key \in Range(Keys(profiles))

\* the place of the profile object p in the store ps
PlaceIn(ps, p) == CHOOSE k \in DOMAIN ps : ps[k].key = p.key

\* after is what is left of before when profiles are deleted from it: every
\* profile of after is a profile of before with all its fields, and two
\* profiles of after stand in the order they had in before
OnlyDeletes(before, after) ==
    /\ \A i \in DOMAIN after : after[i] \in Range(before)
    /\ \A i, j \in DOMAIN after :
        i < j => PlaceIn(before, after[i]) < PlaceIn(before, after[j])

\* C24: the step of _RemoveHiddenProfiles and the step of
\* _ValidateNoDuplicateProfiles only delete profiles: the profiles they leave
\* have the fields and the relative order they had.
C24_PruningKeepsOrder ==
    [][(pc = "_RemoveHiddenProfiles" \/ pc = "_ValidateNoDuplicateProfiles") =>
        OnlyDeletes(profiles, profiles')]_vars

\* the dedup has run in a run that deleted the profile between the two that
\* are left
C24_Witness ==
    /\ pc = "_ResolveDefaultProfile"
    /\ Len(profiles) >= 2 /\ Len(profiles) < Len(entry.profiles)
    /\ PlaceIn(entry.profiles, profiles[2]) - PlaceIn(entry.profiles, profiles[1]) = 2

\* C25: every BuildSettings(newTerminalArgs) call on a validated object, with
\* or without arguments, token and index, returns without E_INVALIDARG the
\* GUID of a profile of the store.
C25_ResolverTotal ==
    (built.called /\ built.request.kind = "args") =>
        ~built.threw /\ HasProfile(built.guid)

\* a call whose token names nothing and whose index is outside the store, on
\* an object whose validation had to repair the default profile
C25_Witness ==
    /\ ResolvedArgs
    /\ TokenOfCall # "" /\ IndexOfCall # <<>> /\ ~IndexInRange(IndexOfCall)
    /\ Count(warnings, "MissingDefaultProfile") = 1
    /\ entry.defaultProfile # NullGuid
    /\ profiles = built.profiles /\ runs = 1
    /\ HasProfile(built.guid) /\ built.guid = defaultProfile

====
